---- MODULE Spec2Model ----
(***************************************************************************)
(* Model of the RSINC Canal+ gateway (src/main.py, src/models.py).         *)
(*                                                                         *)
(* The gateway is a single asyncio process: a coroutine runs without       *)
(* interruption from one await to the next.  Each fragment of code is an   *)
(* operator from machine state to machine state (the record built by Cur); *)
(* an action of the model resumes one coroutine and runs its fragments up  *)
(* to its next await (Run).  The upstream, the network and the clock move  *)
(* between two such runs.  The clock advances only while the event loop    *)
(* has nothing ready to run (it is then blocked waiting for I/O).          *)
(***************************************************************************)
EXTENDS Integers, Sequences, FiniteSets, TLC

\* ------------------------------------------------------------------ bounds
NProcs    == 2      \* concurrent handlers of the session model
NCallers  == 3      \* concurrent ensure_token callers (SpecEnsure)
MaxLogins == 2      \* login requests the upstream answers in one run

\* ------------------------------------------------------- program constants
TTL            == 300   \* main.py:104
REFRESH_SAFETY == 15    \* main.py:47 (default of the environment variable)

\* the instants the clock visits: a login round trip of REFRESH_SAFETY
\* seconds and the expiry of a token stored at 0
Instants == {0, REFRESH_SAFETY, TTL - REFRESH_SAFETY}

MaxOf(a, b) == IF a >= b THEN a ELSE b
AllProcs == 1..MaxOf(NProcs, NCallers)
Procs    == 1..NProcs
Callers  == 1..NCallers

VARIABLES
  token,     \* CanalSession._token   (0 is None, n > 0 the token of login n)
  exp,       \* CanalSession._exp
  lock,      \* CanalSession._lock    (0 is free, p the holder)
  client,    \* CanalSession._client is not None
  now,       \* time.time()
  st,        \* per coroutine: position, operation, locals and outcome
  net,       \* per coroutine: its HTTP exchange
  nLogins,   \* login requests that reached the upstream
  tokIss,    \* instant at which the upstream issued the cached token
  expOf,     \* the login whose completion computed _exp
  lastAnswer, \* the answer login() has read in the last step, and its reader
  bomiBase,  \* BOMI_BASE is set
  apiKey     \* EXPECTED_API_KEY ("" when no key is configured)

vars == <<token, exp, lock, client, now, st, net, nLogins, tokIss, expOf,
          lastAnswer, bomiBase, apiKey>>

NoAnswer == [who |-> 0, ph |-> "none", status |-> 0, json |-> FALSE, tok |-> 0]

\* the state the coroutines act on
Cur == [token |-> token, exp |-> exp, tokIss |-> tokIss, expOf |-> expOf,
        lock |-> lock, client |-> client, st |-> st, net |-> net,
        la |-> NoAnswer]

Set(m) ==
  \E r \in {m} :
    /\ token' = r.token
    /\ exp' = r.exp
    /\ tokIss' = r.tokIss
    /\ expOf' = r.expOf
    /\ lock' = r.lock
    /\ client' = r.client
    /\ st' = r.st
    /\ net' = r.net
    /\ lastAnswer' = r.la

\* ---------------------------------------------------------------- records
\* a value that may be None: <<>> is None, <<v>> is v
None == <<>>
Some(v) == <<v>>

\* ---------------------------------------------------------------- strings
\* str.startswith
StartsWith(s, pre) == Len(s) >= Len(pre) /\ SubSeq(s, 1, Len(pre)) = pre

\* sub in s
Contains(s, sub) ==
  \E i \in 1..(Len(s) - Len(sub) + 1) : SubSeq(s, i, i + Len(sub) - 1) = sub

\* str.lstrip(c) for a single character c
RECURSIVE LStrip(_, _)
LStrip(s, c) == IF Len(s) > 0 /\ SubSeq(s, 1, 1) = c THEN LStrip(Tail(s), c) ELSE s

\* position of the first occurrence of sub in s from position i on (0: none)
RECURSIVE Find(_, _, _)
Find(s, sub, i) ==
  IF i + Len(sub) - 1 > Len(s) THEN 0
  ELSE IF SubSeq(s, i, i + Len(sub) - 1) = sub THEN i ELSE Find(s, sub, i + 1)

\* str() of a natural number
DigitStr == <<"0", "1", "2", "3", "4", "5", "6", "7", "8", "9">>

RECURSIVE Str(_)
Str(n) == IF n < 10 THEN DigitStr[n + 1]
                    ELSE Str(n \div 10) \o DigitStr[(n % 10) + 1]

\* ------------------------------------------------------------ dictionaries
EmptyDict == [k \in {} |-> ""]

\* {**a, **b}
DictMerge(a, b) ==
  [k \in DOMAIN a \cup DOMAIN b |-> IF k \in DOMAIN b THEN b[k] ELSE a[k]]

\* ----------------------------------------------------------- configuration
\* line 33: the base URL of the upstream, without a trailing slash
CANAL_BASE == "https://canal"

\* line 50
API_BASE == CANAL_BASE \o "/api/rest/onlinesales/v1"

\* line 38, when it is set
BOMI_BASE == "https://bomi"

\* line 54
BASE_HEADERS == [k \in {"Accept"} |-> "application/json"]

\* the scheme of a URL as urlsplit finds it ("" when it has none); the URLs
\* considered are in lower case
SchemeOf(u) ==
  LET i == Find(u, ":", 1)
  IN IF i > 1 /\ ~Contains(SubSeq(u, 1, i - 1), "/")
               /\ ~Contains(SubSeq(u, 1, i - 1), "?")
       THEN SubSeq(u, 1, i - 1) ELSE ""

\* the host a request to URL u is sent to ("" when u names none)
HostOf(u) ==
  LET i == Find(u, "://", 1)
  IN IF SchemeOf(u) = "" \/ i # Len(SchemeOf(u)) + 1 THEN ""
     ELSE LET rest == SubSeq(u, i + 3, Len(u))
              j == Find(rest, "/", 1)
          IN IF j = 0 THEN rest ELSE SubSeq(rest, 1, j - 1)

\* urllib.parse.urljoin(base, rel) for a base that ends with "/" and a rel
\* that does not start with "/": a rel with a scheme of its own is returned
\* as it is, any other is appended to the base (dot segments are kept: they
\* do not change the host)
urljoin(base, rel) ==
  IF rel = "" THEN base
  ELSE IF SchemeOf(rel) # "" /\ SchemeOf(rel) # SchemeOf(base) THEN rel
  ELSE base \o rel

\* lines 156-157
_abs_report_url(report_url) ==
  IF StartsWith(report_url, "http") THEN report_url
  ELSE urljoin(CANAL_BASE \o "/", LStrip(report_url, "/"))

\* line 34
CANAL_AUTH_PATH == "/auth"

\* the token of login n as the upstream writes it; str(None) for no token
TokenStr(n) == IF n = 0 THEN "None" ELSE "tok" \o Str(n)

\* f"Bearer {token}"
Bearer(n) == "Bearer " \o TokenStr(n)

\* the headers of the caller applied last
ReqHeadersMut(caller, n) ==
  DictMerge(DictMerge(BASE_HEADERS, [k \in {"Authorization"} |-> Bearer(n)]),
            caller)

\* line 121: {**BASE_HEADERS, **headers, "Authorization": f"Bearer {token}"}
ReqHeaders(caller, n) ==
  DictMerge(DictMerge(BASE_HEADERS, caller),
            [k \in {"Authorization"} |-> Bearer(n)])

\* line 93: {**BASE_HEADERS, "Content-Type": "application/json"}
LoginHeaders ==
  DictMerge(BASE_HEADERS, [k \in {"Content-Type"} |-> "application/json"])

\* the fields of a JSON answer the gateway reads
NoAns == [sev |-> "none", firstAmount |-> None, duration |-> None, offerCode |-> None]

NoNet == [ph |-> "none", kind |-> "none", status |-> 0, json |-> FALSE,
          tok |-> 0, iss |-> 0, bearer |-> 0, body |-> None, ans |-> NoAns,
          url |-> "", headers |-> EmptyDict, params |-> EmptyDict]

\* QuickRenewalRequest: the fields the recharge flow pre-fills
NoQuick == [amount |-> None, offerCode |-> None, duration |-> None]

IdleSt == [pc |-> "idle", op |-> "none", lctx |-> "none", tok |-> 0,
           attempt |-> 0, err |-> "none", ustatus |-> 0,
           nreq |-> 0, nforced |-> 0, etLogins |-> 0, r1 |-> 0,
           startedEmpty |-> FALSE, waited |-> FALSE, woke |-> -1,
           out |-> "none", code |-> 0, rtok |-> 0, rlogins |-> 0,
           stage |-> "none", flow |-> NoQuick, bk |-> NoAns, bresp |-> 0,
           bsev |-> "none",
           bomi |-> "null", bomiFail |-> "none", body |-> None,
           nbomi |-> 0, nreg |-> 0,
           url |-> "", hdrs |-> EmptyDict, headers |-> EmptyDict,
           params |-> EmptyDict, arg |-> "", xkey |-> None, sfail |-> FALSE,
           query |-> EmptyDict]

\* positions at which a coroutine is suspended (or has nothing to run)
Suspended == {"idle", "login_wait", "req_wait", "et_lock_wait",
              "retry_lock_wait", "bomi_wait", "done", "returned"}

\* HTTP status of an error raised inside a handler: an HTTPException has
\* its own, anything else ends as a 500
ErrCode(err) == IF err \in {"auth_failed", "auth_malformed"} THEN 502 ELSE 500

\* ------------------------------------------------------------------- Init
\* CanalSession.__init__
Init ==
  /\ token = 0
  /\ exp = 0
  /\ lock = 0
  /\ client = FALSE
  /\ now = 0
  /\ st = [p \in AllProcs |-> IdleSt]
  /\ net = [p \in AllProcs |-> NoNet]
  /\ nLogins = 0
  /\ tokIss = 0
  /\ expOf = 0
  /\ lastAnswer = NoAnswer
  /\ bomiBase = FALSE
  /\ apiKey = ""

\* the handler of p ends with outcome o (a return or an exception)
Finish(m, p, o, c) ==
  [m EXCEPT !.st[p].pc = "done", !.st[p].out = o, !.st[p].code = c,
            !.st[p].rlogins = IF m.st[p].op = "ensure_token" THEN nLogins ELSE 0]

Raise(m, p, err) == Finish([m EXCEPT !.st[p].err = err], p, "err", ErrCode(err))

\* a login made under the lock has ended with token t (0: it raised); the
\* callers of ensure_token blocked on the lock are about to see its result
Stamp(f, p, t) ==
  [q \in AllProcs |->
     IF q # p /\ f[q].op = "ensure_token" /\ f[q].pc = "et_lock_wait"
       THEN [f[q] EXCEPT !.woke = t] ELSE f[q]]

\* ---------------------------------------------------- CanalSession.start
\* line 75
start_init(m, p) ==
  [m EXCEPT !.client = TRUE, !.st[p].pc = "login_post", !.st[p].lctx = "start"]

\* a start() that lets the failure of its login through
start_doneMut(m, p) ==
  LET c == [m EXCEPT !.st[p].lctx = "none",
                     !.st[p].sfail = (m.st[p].op = "start" /\ m.st[p].pc = "login_raise")]
  IN IF m.st[p].pc = "login_raise"
       THEN Finish(c, p, "err", ErrCode(m.st[p].err))
       ELSE IF m.st[p].op = "start"
         THEN Finish(c, p, "ok", 200)
         ELSE [c EXCEPT !.st[p].pc = "et_lock", !.net[p] = NoNet]

\* lines 77-80: after login() in start(), a failure is printed and swallowed
start_done(m, p) ==
  LET c == [m EXCEPT !.st[p].lctx = "none", !.st[p].err = "none", !.st[p].ustatus = 0,
                     !.st[p].sfail = (m.st[p].op = "start" /\ m.st[p].pc = "login_raise")]
  IN IF m.st[p].op = "start"
       THEN Finish(c, p, "ok", 200)
       ELSE [c EXCEPT !.st[p].pc = "et_lock", !.net[p] = NoNet]

\* ---------------------------------------------------- CanalSession.login
\* lines 88-94: the assertion, then the POST of the credentials
login_post(m, p) ==
  LET c == [m EXCEPT
              !.st[p].etLogins = IF m.st[p].lctx = "ensure" THEN @ + 1 ELSE @,
              !.st[p].nforced  = IF m.st[p].lctx = "retry" THEN @ + 1 ELSE @]
  IN IF ~m.client
       THEN [c EXCEPT !.st[p].pc = "login_raise", !.st[p].err = "assert"]
       ELSE [c EXCEPT !.st[p].pc = "login_wait",
                      !.net[p] = [NoNet EXCEPT !.ph = "sent", !.kind = "login",
                                               !.url = CANAL_BASE \o CANAL_AUTH_PATH,
                                               !.headers = LoginHeaders]]

\* the error login() raises on response r ("none": it goes on to store)
LoginError(r) ==
  CASE r.ph = "failed"  -> "transport"
    [] r.ph # "failed" /\ r.status # 200 -> "auth_failed"
    [] r.ph # "failed" /\ r.status = 200 /\ ~r.json -> "decode"
    [] r.ph # "failed" /\ r.status = 200 /\ r.json /\ r.tok = 0 -> "auth_malformed"
    [] OTHER -> "none"

\* lines 95-102
login_resp(m, p) ==
  LET r == m.net[p]
      e == LoginError(r)
      c == [m EXCEPT !.la = [who |-> p, ph |-> r.ph, status |-> r.status,
                             json |-> r.json, tok |-> r.tok]]
  IN IF e = "none"
       THEN [c EXCEPT !.st[p].pc = "login_store_token"]
       ELSE [c EXCEPT !.st[p].pc = "login_raise", !.st[p].err = e,
                      !.st[p].ustatus = IF e = "auth_failed" THEN r.status ELSE 0]

\* line 106
login_store_token(m, p) ==
  [m EXCEPT !.token = m.net[p].tok, !.tokIss = m.net[p].iss,
            !.st[p].pc = "login_store_exp"]

\* an expiry that is kept when one is already stored
login_store_expMut(m, p) ==
  IF m.exp # 0
    THEN [m EXCEPT !.st[p].pc = "login_return"]
    ELSE [m EXCEPT !.exp = now + TTL - REFRESH_SAFETY, !.expOf = m.net[p].tok,
                   !.st[p].pc = "login_return"]

\* line 107 (line 105 read the clock, which has not moved since)
login_store_exp(m, p) ==
  [m EXCEPT !.exp = now + TTL - REFRESH_SAFETY, !.expOf = m.net[p].tok,
            !.st[p].pc = "login_return"]

\* --------------------------------------------- CanalSession.ensure_token
\* a lock that excludes nobody
LockFreeMut(m) == TRUE

\* asyncio.Lock: the lock can be taken
LockFree(m) == m.lock = 0

\* line 111, and line 125 of req: async with self._lock
lock_acquire(m, p) ==
  LET et == m.st[p].pc = "et_lock"
  IN IF LockFree(m)
       THEN [m EXCEPT !.lock = p,
                      !.st[p].pc = IF et THEN "et_check" ELSE "login_post",
                      !.st[p].lctx = IF et THEN "none" ELSE "retry"]
       ELSE [m EXCEPT !.st[p].pc = IF et THEN "et_lock_wait" ELSE "retry_lock_wait",
                      !.st[p].waited = (m.st[p].op = "ensure_token")]

\* the expiry instant itself still counted as valid
NeedsLoginMut(tok, e, t) == tok = 0 \/ t > e

\* line 112: not self._token or time.time() >= self._exp
NeedsLogin(tok, e, t) == tok = 0 \/ t >= e

\* the cache is not looked at again once the lock is held
ensure_token_checkMut(m, p) ==
  [m EXCEPT !.st[p].pc = "login_post", !.st[p].lctx = "ensure"]

\* lines 112-113
ensure_token_check(m, p) ==
  IF NeedsLogin(m.token, m.exp, now)
    THEN [m EXCEPT !.st[p].pc = "login_post", !.st[p].lctx = "ensure"]
    ELSE [m EXCEPT !.st[p].pc = "et_return"]

\* line 114: return self._token, leaving the async with
ensure_token_return(m, p) ==
  LET f == IF m.st[p].pc = "login_return" THEN Stamp(m.st, p, m.token) ELSE m.st
      c == [m EXCEPT !.lock = 0, !.st = f]
  IN IF m.st[p].op = "ensure_token"
       THEN Finish([c EXCEPT !.st[p].lctx = "none", !.st[p].rtok = m.token], p, "token", 200)
       ELSE [c EXCEPT !.st[p].pc = "req_send", !.st[p].lctx = "none",
                      !.st[p].tok = m.token, !.st[p].attempt = 1,
                      !.st[p].headers = ReqHeaders(m.st[p].hdrs, m.token),
                      !.net[p] = NoNet]

\* an exception that leaves the login section with the lock still held
login_raiseMut(m, p) == Finish(m, p, "err", ErrCode(m.st[p].err))

\* login() raised in ensure_token, in the retry of req or in authenticate:
\* the async with releases the lock and the exception ends the handler
login_raise(m, p) ==
  LET locked == m.st[p].lctx \in {"ensure", "retry"}
      c == [m EXCEPT !.lock = IF locked THEN 0 ELSE @,
                     !.st = IF locked THEN Stamp(m.st, p, 0) ELSE @]
  IN Finish(c, p, "err", ErrCode(m.st[p].err))

\* ------------------------------------------------------------ authenticate
\* lines 165-167
authenticate_done(m, p) == Finish(m, p, "ok", 200)

\* ------------------------------------------------------ CanalSession.req
\* lines 117-119
req_check(m, p) ==
  [m EXCEPT !.st[p].pc = IF ~m.client THEN "start_init" ELSE "et_lock"]

\* lines 120-123 and line 128: self._client.request(...)
req_send(m, p) ==
  IF ~m.client
    THEN Raise(m, p, "noclient")
  ELSE IF HostOf(m.st[p].url) = ""
    THEN Raise(m, p, "transport")
    ELSE [m EXCEPT !.st[p].pc = "req_wait", !.st[p].nreq = @ + 1,
                   !.st[p].nreg = IF m.st[p].stage = "reg" THEN @ + 1 ELSE @,
                   !.net[p] = [NoNet EXCEPT !.ph = "sent", !.kind = "api",
                                            !.bearer = m.st[p].tok,
                                            !.body = m.st[p].body,
                                            !.url = m.st[p].url,
                                            !.headers = m.st[p].headers,
                                            !.params = m.st[p].params]]

\* a retry on every 401
Retry401Mut(attempt, r) == r.status = 401

\* line 124: r.status_code == 401, tested on the first response only
Retry401(attempt, r) == attempt = 1 /\ r.status = 401

\* a retry after every first response that is not a 200
req_respMut(m, p) ==
  LET r == m.net[p]
      c == [m EXCEPT !.st[p].r1 = IF m.st[p].attempt = 1 /\ r.ph # "failed"
                                    THEN r.status ELSE @]
  IN IF r.ph = "failed"
       THEN Raise(c, p, "transport")
       ELSE IF m.st[p].attempt = 1 /\ r.status # 200
         THEN [c EXCEPT !.st[p].pc = "retry_lock"]
         ELSE Finish(c, p, "resp", r.status)

\* lines 124-129
req_resp(m, p) ==
  LET r == m.net[p]
      c == [m EXCEPT !.st[p].r1 = IF m.st[p].attempt = 1 /\ r.ph # "failed"
                                    THEN r.status ELSE @]
  IN IF r.ph = "failed"
       THEN Raise(c, p, "transport")
       ELSE IF Retry401(m.st[p].attempt, r)
         THEN [c EXCEPT !.st[p].pc = "retry_lock"]
         ELSE IF m.st[p].op = "recharge_flow"
           THEN [c EXCEPT !.st[p].pc = IF m.st[p].stage = "basket"
                                         THEN "rc_basket" ELSE "rc_reg"]
           ELSE IF m.st[p].op = "report_download"
             THEN [c EXCEPT !.st[p].pc = "dl_resp"]
             ELSE Finish(c, p, "resp", r.status)

\* line 127: the Authorization header is rebuilt, the lock released
req_retry(m, p) ==
  [m EXCEPT !.lock = 0,
            !.st = [Stamp(m.st, p, m.token) EXCEPT
                      ![p] = [m.st[p] EXCEPT !.pc = "req_send", !.lctx = "none",
                                             !.tok = m.token, !.attempt = 2,
                                             !.headers = [@ EXCEPT !["Authorization"] =
                                                            Bearer(m.token)]]],
            !.net[p] = NoNet]

\* ------------------------------------------------------- recharge_flow
\* truth value of an optional number, of an optional string
TruthyNum(o) == o # None /\ o[1] # 0
TruthyStr(o) == o # None /\ o[1] # ""

\* model_dump(mode="json"): every declared field is a key of the dict, an
\* omitted one with the value None
model_dump(q) == [k \in {"amount", "offerCode", "duration"} |-> q[k]]

\* dict.setdefault(k, v)
setdefault(d, k, v) ==
  IF k \in DOMAIN d THEN d
  ELSE [x \in DOMAIN d \cup {k} |-> IF x = k THEN v ELSE d[x]]

\* a call of auth.req from the flow
CallReq(m, p, stage, body) ==
  [m EXCEPT !.st[p].pc = "req_check", !.st[p].stage = stage, !.st[p].body = body,
            !.st[p].url = API_BASE \o (IF stage = "basket"
                                         THEN "/cgaOnlineSales/getBasketStateless"
                                         ELSE "/cgaOnlineSales/registerQuickRenewal"),
            !.st[p].hdrs = EmptyDict, !.st[p].headers = EmptyDict,
            !.st[p].attempt = 0, !.st[p].nreq = 0, !.st[p].nforced = 0,
            !.st[p].etLogins = 0, !.st[p].r1 = 0, !.st[p].tok = 0,
            !.net[p] = NoNet]

\* lines 341-342: the basket request (its body is the caller's, unread here)
rc_start(m, p) == CallReq(m, p, "basket", None)

\* any severity accepted
SeverityOkMut(a) == TRUE

\* line 346
SeverityOk(a) == a.sev = "SUCCESS"

\* lines 343-353
rc_basket(m, p) ==
  LET r == m.net[p]
      c == [m EXCEPT !.st[p].bresp = r.status, !.st[p].bsev = r.ans.sev]
  IN IF r.status # 200
       THEN Finish(c, p, "resp", r.status)
       ELSE IF ~r.json
         THEN Raise(c, p, "decode")
         ELSE IF ~SeverityOk(r.ans)
           THEN Finish(c, p, "basket_error", 502)
           ELSE [c EXCEPT !.st[p].bk = r.ans, !.st[p].pc = "rc_bomi"]

\* lines 356-366
rc_bomi(m, p) ==
  IF bomiBase
    THEN [m EXCEPT !.st[p].pc = "bomi_wait", !.st[p].nbomi = @ + 1,
                   !.net[p] = [NoNet EXCEPT !.ph = "sent", !.kind = "bomi",
                                            !.url = BOMI_BASE \o "/api/v1/paymentMeans",
                                            !.headers = BASE_HEADERS]]
    ELSE [m EXCEPT !.st[p].bomi = "null", !.st[p].pc = "rc_quick"]

\* lines 366-370: the client.get is outside the try
rc_bomi_resp(m, p) ==
  LET r == m.net[p]
      c == [m EXCEPT !.st[p].bomiFail = CASE r.ph = "failed" -> "transport"
                                          [] r.ph # "failed" /\ r.status # 200 -> "status"
                                          [] OTHER -> "none"]
  IN IF r.ph = "failed"
       THEN Raise(c, p, "transport")
       ELSE [c EXCEPT !.st[p].bomi = IF r.json THEN "json" ELSE "raw",
                      !.st[p].pc = "rc_quick"]

\* lines 373-378
Prefill(q, a) ==
  LET q1 == setdefault(model_dump(q), "amount", a.firstAmount)
      q2 == IF TruthyStr(a.offerCode) /\ ~TruthyStr(q1["offerCode"])
              THEN [q1 EXCEPT !["offerCode"] = a.offerCode] ELSE q1
  IN IF TruthyNum(a.duration) /\ ~TruthyStr(q2["duration"])
       THEN [q2 EXCEPT !["duration"] = Some(Str(a.duration[1]))] ELSE q2

\* lines 373-381
rc_quick(m, p) == CallReq(m, p, "reg", Some(Prefill(m.st[p].flow, m.st[p].bk)))

\* lines 383-404
rc_reg(m, p) == Finish(m, p, "composite", m.net[p].status)

\* ----------------------------------------------------- _download_report
\* every URL accepted
ReportUrlOkMut(u) == TRUE

\* line 416: reportUrl and "reports/" in reportUrl
ReportUrlOk(u) == u # "" /\ Contains(u, "reports/")

\* lines 416-419
dl_check(m, p) ==
  IF ~ReportUrlOk(m.st[p].arg)
    THEN Finish([m EXCEPT !.st[p].err = "bad_report_url"], p, "err", 400)
    ELSE [m EXCEPT !.st[p].pc = "req_check",
                   !.st[p].url = _abs_report_url(m.st[p].arg),
                   !.st[p].hdrs = [k \in {"Accept"} |-> "*/*"]]

\* lines 420-435: the body is streamed back, with the status 200 of a
\* StreamingResponse
dl_resp(m, p) == Finish(m, p, "stream", 200)

\* ---------------------------------------------------------- get_subscribers
\* only None left out
QueryParamsMut(q) ==
  [k \in {x \in DOMAIN q : q[x] # None} |-> q[k][1]]

\* line 206: {k: v for k, v in params.items() if v not in (None, "")}
QueryParams(q) ==
  [k \in {x \in DOMAIN q : q[x] # None /\ q[x] # Some("")} |-> q[k][1]]

\* lines 197-207
gs_start(m, p) ==
  [m EXCEPT !.st[p].pc = "req_check",
            !.st[p].url = API_BASE \o "/cgaOnlineSales/getSubscribers",
            !.st[p].params = QueryParams(m.st[p].query)]

\* --------------------------------------------------------- verify_api_key
\* every route but /health depends on verify_api_key (lines 160-411)
ProtectedRoutes ==
  {"authenticate", "get_distributors", "bomi_payment_means",
   "bomi_payment_means_quick"}

\* any key accepted
KeyAcceptedMut(expected, x) == expected = "" \/ x # None

\* lines 60-64: no key configured, or the header equals the key
KeyAccepted(expected, x) == expected = "" \/ x = Some(expected)

\* the handler of a route
RoutePc(o) ==
  CASE o = "health" -> "health"
    [] o = "authenticate" -> "login_post"
    [] o = "get_distributors" -> "req_check"
    [] OTHER -> "bp_start"

\* the dependency of the route runs before its handler
verify_api_key(m, p) ==
  IF m.st[p].op \in ProtectedRoutes /\ ~KeyAccepted(apiKey, m.st[p].xkey)
    THEN Finish([m EXCEPT !.st[p].err = "api_key"], p, "err", 401)
    ELSE [m EXCEPT !.st[p].pc = RoutePc(m.st[p].op)]

\* lines 160-162
health(m, p) ==
  Finish(m, p, IF m.token # 0 THEN "token_cached" ELSE "no_token", 200)

\* ------------------------------------------------------ bomi_payment_means
\* the lookup sent with the headers of req
BomiHeadersMut(m) == ReqHeaders(EmptyDict, m.token)

\* lines 307 and 327: headers=BASE_HEADERS
BomiHeaders(m) == BASE_HEADERS

\* lines 300-305 and 320-325, with the defaults of the query parameters
BomiParams(o) ==
  [k \in {"countryId", "managementAct", "saleDeviceId", "distributorId"} |->
     CASE k = "countryId" -> "114"
       [] k = "managementAct" ->
            IF o = "bomi_payment_means" THEN "FLASH_RENEWAL" ELSE "RENEWAL_QUICK"
       [] k = "saleDeviceId" -> "MYPOS"
       [] OTHER -> "23268"]

\* lines 297-307 and 317-327
bp_start(m, p) ==
  IF ~bomiBase
    THEN Raise(m, p, "config")
    ELSE [m EXCEPT !.st[p].pc = "bomi_wait", !.st[p].nbomi = @ + 1,
                   !.net[p] = [NoNet EXCEPT !.ph = "sent", !.kind = "bomi",
                                            !.url = BOMI_BASE \o "/api/v1/paymentMeans",
                                            !.headers = BomiHeaders(m),
                                            !.params = BomiParams(m.st[p].op)]]

\* lines 307-308 and 327-328
bp_resp(m, p) ==
  IF m.net[p].ph = "failed"
    THEN Raise(m, p, "transport")
    ELSE Finish(m, p, "resp", m.net[p].status)

\* ------------------------------------------------------- the event loop
\* one fragment of coroutine p
Exec(m, p) ==
  LET s == m.st[p]
  IN CASE s.pc = "start_init" -> start_init(m, p)
       [] s.pc = "login_post" -> login_post(m, p)
       [] s.pc = "login_resp" -> login_resp(m, p)
       [] s.pc = "login_store_token" -> login_store_token(m, p)
       [] s.pc = "login_store_exp" -> login_store_exp(m, p)
       [] s.pc \in {"login_return", "login_raise"} /\ s.lctx = "start" -> start_done(m, p)
       [] s.pc = "login_return" /\ s.lctx = "ensure" -> ensure_token_return(m, p)
       [] s.pc = "login_return" /\ s.lctx = "retry" -> req_retry(m, p)
       [] s.pc = "login_return" /\ s.lctx = "auth" -> authenticate_done(m, p)
       [] s.pc = "login_raise" /\ s.lctx # "start" -> login_raise(m, p)
       [] s.pc \in {"et_lock", "retry_lock"} -> lock_acquire(m, p)
       [] s.pc = "et_check" -> ensure_token_check(m, p)
       [] s.pc = "et_return" -> ensure_token_return(m, p)
       [] s.pc = "req_check" -> req_check(m, p)
       [] s.pc = "req_send" -> req_send(m, p)
       [] s.pc = "req_resp" -> req_resp(m, p)
       [] s.pc = "rc_start" -> rc_start(m, p)
       [] s.pc = "rc_basket" -> rc_basket(m, p)
       [] s.pc = "rc_bomi" -> rc_bomi(m, p)
       [] s.pc = "rc_bomi_resp" -> rc_bomi_resp(m, p)
       [] s.pc = "rc_quick" -> rc_quick(m, p)
       [] s.pc = "rc_reg" -> rc_reg(m, p)
       [] s.pc = "dl_check" -> dl_check(m, p)
       [] s.pc = "gs_start" -> gs_start(m, p)
       [] s.pc = "verify" -> verify_api_key(m, p)
       [] s.pc = "health" -> health(m, p)
       [] s.pc = "bp_start" -> bp_start(m, p)
       [] s.pc = "bp_resp" -> bp_resp(m, p)
       [] s.pc = "dl_resp" -> dl_resp(m, p)

\* coroutine p runs up to its next await
RECURSIVE Run(_, _)
Run(m, p) ==
  IF m.st[p].pc \in Suspended THEN m
  ELSE CHOOSE r \in {Run(n, p) : n \in {Exec(m, p)}} : TRUE

\* a handler has ended and its task is not yet over
Busy == \E p \in AllProcs : st[p].pc = "done"

\* a coroutine the event loop can resume without waiting for I/O
Ready(p) ==
  \/ st[p].pc \in {"et_lock_wait", "retry_lock_wait"} /\ lock = 0
  \/ st[p].pc = "done"

\* ------------------------------------------------- entry of an operation
EntryPc(o) ==
  CASE o = "ensure_token" -> "et_lock"
    [] o = "req"          -> "req_check"
    [] o = "authenticate" -> "login_post"
    [] o = "start"        -> "start_init"
    [] o = "recharge_flow" -> "rc_start"
    [] o = "report_download" -> "dl_check"

\* a handler (or the lifespan, for start) is invoked
Call(p, o) ==
  /\ ~Busy
  /\ st[p].pc = "idle"
  /\ Set(Run([Cur EXCEPT !.st[p] =
                [IdleSt EXCEPT !.pc = EntryPc(o), !.op = o,
                               !.lctx = IF o = "authenticate" THEN "auth" ELSE "none",
                               !.url = IF o = "req"
                                         THEN API_BASE \o "/cgaOnlineSales/getDistributors"
                                         ELSE "",
                               !.startedEmpty = (o = "ensure_token" /\ token = 0)]], p))
  /\ UNCHANGED <<now, nLogins, bomiBase, apiKey>>

\* the handler has ended: its task is over
handler_return(p) ==
  /\ st[p].pc = "done"
  /\ st' = [st EXCEPT ![p] = IdleSt]
  /\ net' = [net EXCEPT ![p] = NoNet]
  /\ lastAnswer' = NoAnswer
  /\ UNCHANGED <<token, exp, tokIss, expOf, lock, client, now, nLogins, bomiBase, apiKey>>

\* the lock is released and a waiter is woken
lock_resume(p) ==
  /\ ~Busy
  /\ st[p].pc \in {"et_lock_wait", "retry_lock_wait"}
  /\ lock = 0
  /\ Set(Run([Cur EXCEPT !.st[p].pc = IF st[p].pc = "et_lock_wait"
                                        THEN "et_lock" ELSE "retry_lock"], p))
  /\ UNCHANGED <<now, nLogins, bomiBase, apiKey>>

\* ----------------------------------------------------- CanalSession.stop
\* a stop() that also forgets the token
stopMut ==
  /\ ~Busy
  /\ client
  /\ client' = FALSE
  /\ token' = 0
  /\ exp' = 0
  /\ net' = [p \in AllProcs |->
               IF net[p].ph \in {"sent", "replied"} /\ net[p].kind \in {"login", "api"}
                 THEN [NoNet EXCEPT !.ph = "failed", !.kind = net[p].kind] ELSE net[p]]
  /\ lastAnswer' = NoAnswer
  /\ UNCHANGED <<tokIss, expOf, lock, now, st, nLogins, bomiBase, apiKey>>

\* lines 82-85: closing the client fails the requests it has in flight
stop ==
  /\ ~Busy
  /\ client
  /\ client' = FALSE
  /\ net' = [p \in AllProcs |->
               IF net[p].ph \in {"sent", "replied"} /\ net[p].kind \in {"login", "api"}
                 THEN [NoNet EXCEPT !.ph = "failed", !.kind = net[p].kind] ELSE net[p]]
  /\ lastAnswer' = NoAnswer
  /\ UNCHANGED <<token, exp, tokIss, expOf, lock, now, st, nLogins, bomiBase, apiKey>>

\* ------------------------------------------------ upstream, network, clock
\* the upstream receives a login request and answers it; when the answer
\* carries a token, the token is issued at this instant
UpstreamLogin(p) ==
  /\ ~Busy
  /\ net[p].ph = "sent"
  /\ net[p].kind = "login"
  /\ nLogins < MaxLogins
  /\ nLogins' = nLogins + 1
  /\ \E ok \in BOOLEAN :
       net' = [net EXCEPT ![p] =
                 [@ EXCEPT !.ph = "replied",
                           !.tok = IF ok THEN nLogins + 1 ELSE 0,
                           !.iss = IF ok THEN now ELSE 0]]
  /\ lastAnswer' = NoAnswer
  /\ UNCHANGED <<token, exp, tokIss, expOf, lock, client, now, st, bomiBase, apiKey>>

\* answers of the login endpoint that carry no token: a JSON object without
\* "token", a body that is not JSON, a status other than 200
LoginRefusals ==
  { [status |-> 200, json |-> TRUE], [status |-> 200, json |-> FALSE],
    [status |-> 401, json |-> TRUE], [status |-> 503, json |-> TRUE] }

\* the answer to a login request reaches the gateway: login() resumes
DeliverLogin(p) ==
  /\ ~Busy
  /\ st[p].pc = "login_wait"
  /\ net[p].ph = "replied"
  /\ \E r \in IF net[p].tok # 0 THEN {[status |-> 200, json |-> TRUE]} ELSE LoginRefusals :
       Set(Run([Cur EXCEPT !.st[p].pc = "login_resp",
                           !.net[p] = [@ EXCEPT !.ph = "arrived", !.status = r.status,
                                                !.json = r.json]], p))
  /\ UNCHANGED <<now, nLogins, bomiBase, apiKey>>

ApiStatuses == {200, 401, 500}

\* the answers of getBasketStateless the flow tells apart
BasketAnswers ==
  { [sev |-> s, firstAmount |-> a, duration |-> d, offerCode |-> o] :
      s \in {"SUCCESS", "FAILURE"}, a \in {None, Some(1000)},
      d \in {None, Some(30)}, o \in {None, Some("X1")} }

\* the bodies the upstream API can answer to the request of p
ApiAnswers(p) ==
  IF st[p].op = "recharge_flow" /\ st[p].stage = "basket"
    THEN {[json |-> TRUE, ans |-> a] : a \in BasketAnswers}
           \cup {[json |-> FALSE, ans |-> NoAns]}
    ELSE {[json |-> TRUE, ans |-> NoAns]}

\* the upstream API answers a request and the answer reaches the gateway:
\* req() resumes
DeliverApi(p) ==
  /\ ~Busy
  /\ st[p].pc = "req_wait"
  /\ net[p].ph = "sent"
  /\ \E s \in ApiStatuses, b \in ApiAnswers(p) :
       Set(Run([Cur EXCEPT !.st[p].pc = "req_resp",
                           !.net[p] = [@ EXCEPT !.ph = "arrived", !.status = s,
                                                !.json = b.json, !.ans = b.ans]], p))
  /\ UNCHANGED <<now, nLogins, bomiBase, apiKey>>

\* the payment-means provider answers and the answer reaches the gateway
DeliverBomi(p) ==
  /\ ~Busy
  /\ st[p].pc = "bomi_wait"
  /\ net[p].ph = "sent"
  /\ \E s \in {200, 500}, j \in BOOLEAN :
       Set(Run([Cur EXCEPT !.st[p].pc = IF st[p].op = "recharge_flow"
                                          THEN "rc_bomi_resp" ELSE "bp_resp",
                           !.net[p] = [@ EXCEPT !.ph = "arrived", !.status = s,
                                                !.json = j]], p))
  /\ UNCHANGED <<now, nLogins, bomiBase, apiKey>>

\* httpx raises a transport error (connect, read, write or pool timeout, or
\* the client was closed): the awaiting coroutine resumes with the exception
NetFail(p) ==
  /\ ~Busy
  /\ st[p].pc \in {"login_wait", "req_wait", "bomi_wait"}
  /\ net[p].ph \in {"sent", "replied", "failed"}
  /\ Set(Run([Cur EXCEPT !.st[p].pc = CASE st[p].pc = "login_wait" -> "login_resp"
                                         [] st[p].pc = "req_wait" -> "req_resp"
                                         [] st[p].op = "recharge_flow" -> "rc_bomi_resp"
                                         [] OTHER -> "bp_resp",
                         !.net[p] = [NoNet EXCEPT !.ph = "failed", !.kind = net[p].kind]], p))
  /\ UNCHANGED <<now, nLogins, bomiBase, apiKey>>

\* the event loop has nothing to run: time passes
Tick ==
  /\ \A p \in AllProcs : ~Ready(p)
  /\ \E t \in Instants : t > now /\ now' = t
  /\ lastAnswer' = NoAnswer
  /\ UNCHANGED <<token, exp, tokIss, expOf, lock, client, st, net, nLogins, bomiBase, apiKey>>

\* ---------------------------------------------------------- specifications
Ops == {"req", "authenticate", "start"}

Next ==
  \/ \E p \in Procs : \E o \in Ops : Call(p, o)
  \/ \E p \in Procs : handler_return(p)
  \/ \E p \in Procs : lock_resume(p)
  \/ \E p \in Procs : UpstreamLogin(p)
  \/ \E p \in Procs : DeliverLogin(p)
  \/ \E p \in Procs : DeliverApi(p)
  \/ \E p \in Procs : NetFail(p)
  \/ stop
  \/ Tick

Spec == Init /\ [][Next]_vars

\* the recharge flow, with or without a payment-means provider configured
QuickRequests ==
  { [amount |-> a, offerCode |-> o, duration |-> d] :
      a \in {None, Some(500)}, o \in {None, Some("Z9")}, d \in {None, Some("12")} }

CallRecharge(p, q) ==
  /\ ~Busy
  /\ st[p].pc = "idle"
  /\ Set(Run([Cur EXCEPT !.st[p] =
                [IdleSt EXCEPT !.pc = "rc_start", !.op = "recharge_flow", !.flow = q]], p))
  /\ UNCHANGED <<now, nLogins, bomiBase, apiKey>>

InitRecharge ==
  /\ token = 0
  /\ exp = 0
  /\ lock = 0
  /\ client = FALSE
  /\ now = 0
  /\ st = [p \in AllProcs |-> IdleSt]
  /\ net = [p \in AllProcs |-> NoNet]
  /\ nLogins = 0
  /\ tokIss = 0
  /\ expOf = 0
  /\ lastAnswer = NoAnswer
  /\ bomiBase \in BOOLEAN
  /\ apiKey = ""

Flows == {1}

NextRecharge ==
  \/ \E p \in Flows : \E q \in QuickRequests : CallRecharge(p, q)
  \/ \E p \in Flows : handler_return(p)
  \/ \E p \in Flows : UpstreamLogin(p)
  \/ \E p \in Flows : DeliverLogin(p)
  \/ \E p \in Flows : DeliverApi(p)
  \/ \E p \in Flows : DeliverBomi(p)
  \/ \E p \in Flows : NetFail(p)
  \/ Tick

SpecRecharge == InitRecharge /\ [][NextRecharge]_vars

\* report download
ReportUrls ==
  {"", "/reports/a.pdf", "reports/a", "//evil/reports/a", "/x/a.pdf",
   "https://canal/reports/a", "http://evil/reports/a", "x:reports/a"}

CallDownload(p, u) ==
  /\ ~Busy
  /\ st[p].pc = "idle"
  /\ Set(Run([Cur EXCEPT !.st[p] =
                [IdleSt EXCEPT !.pc = "dl_check", !.op = "report_download", !.arg = u]], p))
  /\ UNCHANGED <<now, nLogins, bomiBase, apiKey>>

NextReport ==
  \/ \E p \in Flows : \E u \in ReportUrls : CallDownload(p, u)
  \/ \E p \in Flows : handler_return(p)
  \/ \E p \in Flows : UpstreamLogin(p)
  \/ \E p \in Flows : DeliverLogin(p)
  \/ \E p \in Flows : DeliverApi(p)
  \/ \E p \in Flows : NetFail(p)
  \/ Tick

SpecReport == Init /\ [][NextReport]_vars

\* req called with headers of the caller, next to calls without
CallerHeaders ==
  { EmptyDict,
    [k \in {"Accept"} |-> "*/*"],
    [k \in {"Accept", "Authorization"} |->
       IF k = "Accept" THEN "text/plain" ELSE "Bearer forged"] }

CallReqWith(p, h) ==
  /\ ~Busy
  /\ st[p].pc = "idle"
  /\ Set(Run([Cur EXCEPT !.st[p] =
                [IdleSt EXCEPT !.pc = "req_check", !.op = "req", !.hdrs = h,
                               !.url = API_BASE \o "/cgaOnlineSales/getDistributors"]], p))
  /\ UNCHANGED <<now, nLogins, bomiBase, apiKey>>

NextHeaders ==
  \/ \E p \in Flows : \E h \in CallerHeaders : CallReqWith(p, h)
  \/ \E p \in Procs \ Flows : Call(p, "req")
  \/ \E p \in Procs : handler_return(p)
  \/ \E p \in Procs : lock_resume(p)
  \/ \E p \in Procs : UpstreamLogin(p)
  \/ \E p \in Procs : DeliverLogin(p)
  \/ \E p \in Procs : DeliverApi(p)
  \/ \E p \in Procs : NetFail(p)
  \/ Tick

SpecHeaders == Init /\ [][NextHeaders]_vars

\* the routes behind the API key, with the lifespan before them
Routes == ProtectedRoutes \cup {"health"}

ApiKeys == {None, Some("k1"), Some("bad")}

Request(p, o, x) ==
  /\ ~Busy
  /\ st[p].pc = "idle"
  /\ Set(Run([Cur EXCEPT !.st[p] =
                [IdleSt EXCEPT !.pc = "verify", !.op = o, !.xkey = x,
                               !.lctx = IF o = "authenticate" THEN "auth" ELSE "none",
                               !.url = IF o = "get_distributors"
                                         THEN API_BASE \o "/cgaOnlineSales/getDistributors"
                                         ELSE ""]], p))
  /\ UNCHANGED <<now, nLogins, bomiBase, apiKey>>

InitRoutes ==
  /\ token = 0
  /\ exp = 0
  /\ lock = 0
  /\ client = FALSE
  /\ now = 0
  /\ st = [p \in AllProcs |-> IdleSt]
  /\ net = [p \in AllProcs |-> NoNet]
  /\ nLogins = 0
  /\ tokIss = 0
  /\ expOf = 0
  /\ lastAnswer = NoAnswer
  /\ bomiBase \in BOOLEAN
  /\ apiKey \in {"", "k1"}

NextRoutes ==
  \/ \E p \in Flows : Call(p, "start")
  \/ \E p \in Flows : \E o \in Routes : \E x \in ApiKeys : Request(p, o, x)
  \/ \E p \in Flows : handler_return(p)
  \/ \E p \in Flows : UpstreamLogin(p)
  \/ \E p \in Flows : DeliverLogin(p)
  \/ \E p \in Flows : DeliverApi(p)
  \/ \E p \in Flows : DeliverBomi(p)
  \/ \E p \in Flows : NetFail(p)
  \/ Tick

SpecRoutes == InitRoutes /\ [][NextRoutes]_vars

\* the subscriber search: userId and distributorNumber are required strings,
\* the other four are optional
SubscriberQueries ==
  { [k \in {"userId", "distributorNumber", "subscriberNumber", "phoneNumber",
             "materialNumber", "email"} |->
       CASE k = "userId" -> u
         [] k = "distributorNumber" -> d
         [] k = "subscriberNumber" -> s
         [] k = "phoneNumber" -> t
         [] k = "materialNumber" -> n
         [] OTHER -> e] :
      u \in {Some(""), Some("u1")}, d \in {Some(""), Some("d 1")},
      s \in {None, Some(""), Some("s1")}, t \in {None, Some(""), Some("+225")},
      n \in {None, Some(""), Some("m1")}, e \in {None, Some(""), Some("a@b")} }

CallSubscribers(p, q) ==
  /\ ~Busy
  /\ st[p].pc = "idle"
  /\ Set(Run([Cur EXCEPT !.st[p] =
                [IdleSt EXCEPT !.pc = "gs_start", !.op = "get_subscribers",
                               !.query = q]], p))
  /\ UNCHANGED <<now, nLogins, bomiBase, apiKey>>

NextQuery ==
  \/ \E p \in Flows : \E q \in SubscriberQueries : CallSubscribers(p, q)
  \/ \E p \in Flows : handler_return(p)
  \/ \E p \in Flows : UpstreamLogin(p)
  \/ \E p \in Flows : DeliverLogin(p)
  \/ \E p \in Flows : DeliverApi(p)
  \/ \E p \in Flows : NetFail(p)
  \/ Tick

SpecQuery == Init /\ [][NextQuery]_vars

\* ensure_token and req called concurrently and again and again, under the
\* scheduling of the event loop: a handler that has ended is cleaned up, the
\* waiters of the asyncio.Lock are woken in turn, and every request in
\* flight is eventually answered or fails
Lockers == {1, 2}

\* the exchange of p with the upstream moves on: the request is answered,
\* the answer arrives, or the transport fails
NetStep(p) == UpstreamLogin(p) \/ DeliverLogin(p) \/ DeliverApi(p) \/ NetFail(p)

\* the clock reaches the instant at which a token stored at the start is
\* no longer valid (line 112), so that a cached token sends ensure_token
\* into login() again
Expire == Tick /\ now' = TTL - REFRESH_SAFETY

NextLive ==
  \/ \E p \in Lockers : \E o \in {"req", "ensure_token"} : Call(p, o)
  \/ \E p \in Lockers : handler_return(p)
  \/ \E p \in Lockers : lock_resume(p)
  \/ \E p \in Lockers : NetStep(p)
  \/ Expire

\* the step that lets the suspended coroutine p go on: the lock for one
\* that waits for it, the network for one that awaits an answer
Resume(p) == lock_resume(p) \/ NetStep(p)

Fairness ==
  /\ WF_vars(\E p \in Lockers : handler_return(p))
  /\ \A p \in Lockers : SF_vars(Resume(p))

SpecLive == Init /\ [][NextLive]_vars /\ Fairness

\* ensure_token called directly and concurrently on a started session whose
\* login at startup failed (client present, empty cache); each caller makes
\* one call and keeps its outcome
InitEnsure ==
  /\ token = 0
  /\ exp = 0
  /\ lock = 0
  /\ client = TRUE
  /\ now = 0
  /\ st = [p \in AllProcs |-> IdleSt]
  /\ net = [p \in AllProcs |-> NoNet]
  /\ nLogins = 0
  /\ tokIss = 0
  /\ expOf = 0
  /\ lastAnswer = NoAnswer
  /\ bomiBase = FALSE
  /\ apiKey = ""

\* the caller has its result
handler_keep(p) ==
  /\ st[p].pc = "done"
  /\ st' = [st EXCEPT ![p].pc = "returned"]
  /\ lastAnswer' = NoAnswer
  /\ UNCHANGED <<token, exp, tokIss, expOf, lock, client, now, net, nLogins, bomiBase, apiKey>>

NextEnsure ==
  \/ \E p \in Callers : Call(p, "ensure_token")
  \/ \E p \in Callers : handler_keep(p)
  \/ \E p \in Callers : lock_resume(p)
  \/ \E p \in Callers : UpstreamLogin(p)
  \/ \E p \in Callers : DeliverLogin(p)
  \/ \E p \in Callers : NetFail(p)
  \/ Tick

SpecEnsure == InitEnsure /\ [][NextEnsure]_vars

\* ------------------------------------------------------------------ claims
Ended(p) == st[p].pc \in {"done", "returned"}

\* C1: as long as no login has failed, every ensure_token call issued while
\* the cache was empty returns the token of the first login, and that login
\* is the only login request that has reached the upstream
C1_SingleLogin ==
  (\A q \in Callers : st[q].out # "err") =>
     \A p \in Callers :
        (Ended(p) /\ st[p].startedEmpty) =>
           /\ st[p].out = "token"
           /\ st[p].rlogins = 1
           /\ st[p].rtok = 1
           /\ \A q \in Callers :
                (Ended(q) /\ st[q].startedEmpty) => st[q].rtok = st[p].rtok

\* every caller called on the empty cache, two of them blocked on the lock,
\* and all have their token
C1_Witness ==
  /\ \A p \in Callers : st[p].pc = "returned" /\ st[p].startedEmpty /\ st[p].out = "token"
  /\ Cardinality({p \in Callers : st[p].waited}) >= 2

\* C2: a login request is in flight only while its sender holds the lock,
\* so at most one login is in flight
C2_LoginUnderLock ==
  /\ \A p \in Procs : st[p].pc = "login_wait" => lock = p
  /\ Cardinality({p \in Procs : st[p].pc = "login_wait"}) <= 1

\* C3 as stated: a req call whose first response is 401 makes one forced
\* login and exactly one more request
C3_AlwaysSecondRequest ==
  \A p \in Procs :
     (st[p].pc = "done" /\ st[p].op = "req" /\ st[p].r1 = 401) =>
        st[p].nforced = 1 /\ st[p].nreq = 2

\* C3 amended: a req call whose first response is 401 makes one forced
\* login; if that login raises, the call raises and sends nothing more;
\* otherwise it sends exactly one more request and returns its response as
\* it is (or raises its transport error); no call sends more than two
\* requests or makes more than one forced login
C3_RetryOnce ==
  \A p \in Procs :
     /\ st[p].nreq <= 2
     /\ st[p].nforced <= 1
     /\ (st[p].pc = "done" /\ st[p].op = "req" /\ st[p].r1 = 401) =>
           /\ st[p].nforced = 1
           /\ IF st[p].lctx = "retry"
                THEN st[p].out = "err" /\ st[p].nreq = 1
                ELSE /\ st[p].nreq = 2
                     /\ st[p].out = "resp" =>
                          net[p].ph = "arrived" /\ st[p].code = net[p].status
                     /\ st[p].out # "resp" =>
                          st[p].out = "err" /\ st[p].err = "transport"

\* a req call has had two 401 in a row and returns the second
C3_Witness ==
  \E p \in Procs :
     /\ st[p].pc = "done" /\ st[p].op = "req" /\ st[p].r1 = 401
     /\ st[p].nreq = 2 /\ st[p].out = "resp" /\ st[p].code = 401

\* ensure_token returns to req in this step: req sends its first request
EtReturns(p) == st[p].nreq = 0 /\ st'[p].nreq = 1

\* C4: ensure_token makes at most one login; the token it returns is the
\* cached one and the clock is before its expiry, so a token found expired
\* is returned only after the login of that call has replaced it; when that
\* login raises, the call raises and no token is used
C4_NoStaleToken ==
  [][\A p \in Procs :
       /\ st'[p].etLogins <= 1
       /\ EtReturns(p) =>
            /\ net'[p].bearer # 0
            /\ net'[p].bearer = token'
            /\ now < exp'
       /\ (st'[p].pc = "done" /\ st'[p].lctx = "ensure") =>
            st'[p].out = "err" /\ st'[p].nreq = 0]_vars

\* at the expiry instant of the first token a call has logged in again and
\* is sending its request with the second token
C4_Witness ==
  \E p \in Procs :
     /\ st[p].pc = "req_wait" /\ st[p].attempt = 1 /\ st[p].etLogins = 1
     /\ now >= TTL - REFRESH_SAFETY
     /\ net[p].bearer = 2

\* C6: a token returned by ensure_token without a login is returned before
\* the instant of its issuance + TTL - REFRESH_SAFETY
C6_IssuanceWindow ==
  [][\A p \in Procs :
       (EtReturns(p) /\ st'[p].etLogins = 0) =>
          now < tokIss + TTL - REFRESH_SAFETY]_vars

RegSent(p) ==
  /\ st[p].op = "recharge_flow" /\ st[p].stage = "reg"
  /\ st[p].pc = "req_wait" /\ st[p].attempt = 1

\* the value the basket offers for a field of the registration body
FromBasket(a, k) ==
  CASE k = "amount" -> a.firstAmount
    [] k = "offerCode" -> a.offerCode
    [] OTHER -> IF a.duration = None THEN None ELSE Some(Str(a.duration[1]))

\* C8: the body of the registration request has, for amount, offerCode and
\* duration, the caller's value when the caller supplied one and otherwise
\* the basket's firstAmount, selectedOffer.offerCode and str(duration)
C8_Prefill ==
  \A p \in Flows :
     RegSent(p) =>
        /\ net[p].body # None
        /\ \A k \in {"amount", "offerCode", "duration"} :
             net[p].body[1][k] = IF st[p].flow[k] # None THEN st[p].flow[k]
                                 ELSE FromBasket(st[p].bk, k)

\* the basket answer read by the flow of p has status 200 and severity SUCCESS
BasketPassed(p) == st[p].bresp = 200 /\ st[p].bsev = "SUCCESS"

\* C9 as stated: a flow whose basket answer has a severity other than
\* SUCCESS ends with the 502 composite error and has sent neither the
\* payment-means lookup nor the registration request
C9_NonSuccessIs502 ==
  \A p \in Flows :
     (st[p].op = "recharge_flow" /\ st[p].bsev = "FAILURE") =>
        /\ st[p].pc = "done" /\ st[p].out = "basket_error" /\ st[p].code = 502
        /\ st[p].nbomi = 0 /\ st[p].nreg = 0

\* C9 amended: the payment-means lookup and the registration request are
\* sent only after a basket answer with status 200 and severity SUCCESS;
\* on any other basket answer the flow ends at once with nothing more sent:
\* an answer with another status is returned as it is, with its own status,
\* and the 502 composite error is returned exactly for an answer with status
\* 200 and a JSON body whose severity is not SUCCESS
C9_BasketGate ==
  \A p \in Flows :
     /\ (st[p].nbomi > 0 \/ st[p].nreg > 0 \/ st[p].stage = "reg") => BasketPassed(p)
     /\ (st[p].op = "recharge_flow" /\ st[p].bresp # 0 /\ ~BasketPassed(p)) =>
           /\ st[p].pc = "done"
           /\ st[p].nbomi = 0 /\ st[p].nreg = 0
           /\ st[p].bresp # 200 => (st[p].out = "resp" /\ st[p].code = st[p].bresp)
           /\ (st[p].bresp = 200 /\ st[p].bsev = "FAILURE") =>
                 (st[p].out = "basket_error" /\ st[p].code = 502)
           /\ (st[p].bresp = 200 /\ st[p].bsev = "none") =>
                 (st[p].out = "err" /\ st[p].err = "decode")
     /\ st[p].out = "basket_error" => (st[p].bresp = 200 /\ st[p].bsev = "FAILURE")

\* with a payment-means provider configured, a flow has ended with the 502
\* composite error on a basket answer of severity FAILURE, nothing else sent
C9_Witness ==
  \E p \in Flows :
     /\ bomiBase /\ st[p].pc = "done" /\ st[p].op = "recharge_flow"
     /\ st[p].bresp = 200 /\ st[p].bsev = "FAILURE"
     /\ st[p].out = "basket_error" /\ st[p].code = 502
     /\ st[p].nbomi = 0 /\ st[p].nreg = 0

\* C10: a flow whose payment-means lookup failed (transport error or
\* timeout, or an answer with a status other than 200) goes on to the
\* registration step with paymentMeansQuick null
C10_BomiNotFatal ==
  \A p \in Flows :
     (st[p].op = "recharge_flow" /\ st[p].bomiFail # "none") =>
        /\ st[p].stage = "reg"
        /\ st[p].bomi = "null"
        /\ st[p].err # "transport"

\* C11: a report download whose reportUrl is empty or lacks "reports/" ends
\* with a 400 error and has sent nothing: no login request, no upstream
\* GET, and it never held a token; no other download ends with a 400
C11_RejectBeforeOutbound ==
  \A p \in Flows :
     st[p].op = "report_download" =>
        IF st[p].arg = "" \/ ~Contains(st[p].arg, "reports/")
          THEN /\ st[p].pc = "done" /\ st[p].out = "err" /\ st[p].code = 400
               /\ net[p] = NoNet
               /\ st[p].nreq = 0 /\ st[p].etLogins = 0 /\ st[p].tok = 0
          ELSE st[p].code # 400

\* a URL without "reports/" has been rejected on a session that has not
\* sent anything yet
C11_Witness ==
  \E p \in Flows :
     /\ st[p].op = "report_download" /\ st[p].arg = "/x/a.pdf"
     /\ st[p].pc = "done" /\ st[p].code = 400 /\ nLogins = 0 /\ ~client

\* C12: a request that carries the Authorization header is sent to the
\* host of CANAL_BASE
C12_BearerOnlyToUpstream ==
  \A p \in Flows :
     (net[p].ph = "sent" /\ "Authorization" \in DOMAIN net[p].headers) =>
        HostOf(net[p].url) = HostOf(CANAL_BASE)

\* C13: when an upstream attempt of a req call (its login or its request)
\* fails at transport level, the call ends at once with that transport
\* error, sends nothing more, and the token and the expiry are unchanged
C13_TransportNotRetried ==
  [][\A p \in Procs :
       (st[p].op = "req" /\ NetFail(p)) =>
          /\ st'[p].pc = "done"
          /\ st'[p].out = "err" /\ st'[p].err = "transport"
          /\ net'[p].ph # "sent"
          /\ token' = token /\ exp' = exp]_vars

\* req sends its retry in this step
RetrySent(p) == st[p].nreq = 1 /\ st'[p].nreq = 2

\* C14: every request of req has the header Authorization with the value
\* "Bearer <token>", whatever the headers of the caller, which are
\* otherwise passed on; the token of the first request is the cached token
\* ensure_token has just returned; the token of the retry is the one the
\* forced login of this call has just stored, which is not the rejected one
C14_BearerNotOverridden ==
  [][\A p \in Procs :
       /\ (EtReturns(p) \/ RetrySent(p)) =>
            /\ token' # 0
            /\ "Authorization" \in DOMAIN net'[p].headers
            /\ net'[p].headers["Authorization"] = "Bearer tok" \o Str(token')
            /\ \A k \in DOMAIN st'[p].hdrs \ {"Authorization"} :
                 net'[p].headers[k] = st'[p].hdrs[k]
            /\ "Accept" \in DOMAIN net'[p].headers
       /\ RetrySent(p) =>
            /\ lastAnswer'.who = p /\ lastAnswer'.tok = token'
            /\ st[p].headers["Authorization"] # net'[p].headers["Authorization"]]_vars

\* a call whose caller supplied an Authorization header has had a 401 and
\* is sending its retry with the token of its forced login
C14_Witness ==
  \E p \in Procs :
     /\ st[p].pc = "req_wait" /\ st[p].attempt = 2
     /\ "Authorization" \in DOMAIN st[p].hdrs
     /\ net[p].headers["Authorization"] = "Bearer tok2"
     /\ net[p].headers["Accept"] = "text/plain"

\* a request reaches the gateway in this step
Arrives(p) == st[p].pc = "idle" /\ st'[p].op \in Routes

\* C15: with a key configured, a request to a protected route whose
\* X-API-KEY header is absent or different ends with 401 and nothing is
\* sent or changed; no other request is rejected for its key: none when no
\* key is configured, none with the right key, none to /health
C15_ApiKeyGate ==
  [][\A p \in Flows :
       Arrives(p) =>
          IF apiKey # "" /\ st'[p].op # "health" /\ st'[p].xkey # <<apiKey>>
            THEN /\ st'[p].pc = "done" /\ st'[p].out = "err" /\ st'[p].code = 401
                 /\ net' = net /\ net'[p] = NoNet
                 /\ nLogins' = nLogins /\ token' = token /\ exp' = exp
                 /\ client' = client /\ lock' = lock
            ELSE /\ st'[p].err # "api_key"
                 /\ st'[p].code # 401
                 /\ st'[p].op = "health" =>
                      (st'[p].pc = "done" /\ st'[p].out = IF token # 0 THEN "token_cached"
                                                                        ELSE "no_token")]_vars

\* with a key configured, a request with another key has been rejected
\* before the session has sent anything
C15_Witness ==
  \E p \in Flows :
     /\ apiKey = "k1" /\ st[p].xkey = <<"bad">> /\ st[p].op = "get_distributors"
     /\ st[p].pc = "done" /\ st[p].code = 401 /\ nLogins = 0 /\ ~client

\* p is in a payment-means passthrough that has passed the key check
InPassthrough(p) ==
  /\ st[p].op \in {"bomi_payment_means", "bomi_payment_means_quick"}
  /\ st[p].err # "api_key"

\* C16: a payment-means passthrough without BOMI_BASE ends with a 500
\* configuration error and sends nothing; with BOMI_BASE, its request goes
\* to that host without Authorization header, and the passthrough makes no
\* login and leaves token, expiry and lock as they are
C16_Passthrough ==
  [][\A p \in Flows :
       (st'[p].op \in {"bomi_payment_means", "bomi_payment_means_quick"}
        /\ st'[p].err # "api_key") =>
          /\ token' = token /\ exp' = exp /\ lock' = lock /\ nLogins' = nLogins
          /\ net'[p].kind # "login"
          /\ st'[p].etLogins = 0 /\ st'[p].nforced = 0 /\ st'[p].nreq = 0
          /\ IF bomiBase
               THEN /\ st'[p].nbomi = 1
                    /\ net'[p].ph = "sent" =>
                         /\ "Authorization" \notin DOMAIN net'[p].headers
                         /\ HostOf(net'[p].url) = "bomi"
                         /\ DOMAIN net'[p].params =
                              {"countryId", "managementAct", "saleDeviceId", "distributorId"}
               ELSE /\ st'[p].pc = "done" /\ st'[p].out = "err"
                    /\ st'[p].err = "config" /\ st'[p].code = 500
                    /\ st'[p].nbomi = 0 /\ net'[p] = NoNet]_vars

\* with a token cached, a passthrough request is in flight without it
C16_Witness ==
  \E p \in Flows :
     /\ bomiBase /\ token # 0 /\ InPassthrough(p)
     /\ st[p].pc = "bomi_wait" /\ net[p].ph = "sent"
     /\ "Authorization" \notin DOMAIN net[p].headers

\* C17: the query of the request get_subscribers sends has no parameter
\* whose value is None or the empty string, and every other parameter with
\* the value given, and nothing else
C17_QueryBuilding ==
  \A p \in Flows :
     (st[p].op = "get_subscribers" /\ net[p].kind = "api" /\ net[p].ph = "sent") =>
        /\ DOMAIN net[p].params \subseteq DOMAIN st[p].query
        /\ \A k \in DOMAIN st[p].query :
             IF st[p].query[k] = <<>> \/ st[p].query[k] = <<"">>
               THEN k \notin DOMAIN net[p].params
               ELSE k \in DOMAIN net[p].params
                    /\ <<net[p].params[k]>> = st[p].query[k]

\* a search with an absent, an empty and two given optional parameters is
\* in flight with the three given parameters only
C17_Witness ==
  \E p \in Flows :
     /\ st[p].op = "get_subscribers" /\ net[p].kind = "api" /\ net[p].ph = "sent"
     /\ st[p].query["subscriberNumber"] = <<>>
     /\ st[p].query["email"] = <<"">>
     /\ st[p].query["userId"] = <<"u1">>
     /\ DOMAIN net[p].params = {"userId", "phoneNumber", "materialNumber"}
     /\ net[p].params["phoneNumber"] = "+225"

\* p enters ensure_token in this step, called by req on a session with a
\* client or resumed on the lock
EtEnters(p) ==
  \/ st[p].pc = "idle" /\ st'[p].op = "req" /\ client
  \/ st[p].pc = "et_lock_wait" /\ st'[p].pc # "et_lock_wait"

\* C18: an ensure_token that finds a token cached and the clock before its
\* expiry sends no login and leaves token and expiry as they are, and the
\* request of its caller carries that token; a req call whose first
\* response has a status other than 401 has sent one request, made no
\* forced login, and returns that response with its status
C18_Frame ==
  [][\A p \in Procs :
       /\ (EtEnters(p) /\ token # 0 /\ now < exp) =>
            /\ token' = token /\ exp' = exp /\ nLogins' = nLogins
            /\ st'[p].etLogins = 0 /\ net'[p].kind # "login"
            /\ st'[p].nreq = 1 => net'[p].headers["Authorization"] = Bearer(token)
       /\ (st'[p].op = "req" /\ st'[p].pc = "done" /\ st'[p].r1 \notin {0, 401}) =>
            /\ st'[p].nreq = 1 /\ st'[p].nforced = 0
            /\ st'[p].out = "resp" /\ st'[p].code = st'[p].r1
            /\ net'[p].ph = "arrived" /\ net'[p].status = st'[p].r1
            /\ token' = token /\ exp' = exp]_vars

\* a req call served from the cache has had a 500 as its only response and
\* returns it
C18_Witness ==
  \E p \in Procs :
     /\ st[p].op = "req" /\ st[p].pc = "done" /\ st[p].r1 = 500
     /\ st[p].etLogins = 0 /\ st[p].nreq = 1 /\ st[p].tok = token /\ token # 0
     /\ st[p].out = "resp" /\ st[p].code = 500

\* the login of the start() of p ends in this step
StartEnds(p) ==
  st[p].op = "start" /\ st[p].pc = "login_wait" /\ st'[p].pc # "login_wait"

\* C19: start() creates the HTTP client; when its login ends, with a token
\* or with any failure, start() returns normally and the client is still
\* there; after a failure token and expiry are what they were (empty at
\* startup); a req call that sends its request from an empty cache has in
\* that same run read the answer of a login of its own (the one of
\* ensure_token, unless the call had to run start() itself) and sends the
\* token of that login
C19_DeferredAuth ==
  [][\A p \in Procs :
       /\ (st[p].pc = "idle" /\ st'[p].op = "start") => client'
       /\ StartEnds(p) =>
            /\ st'[p].pc = "done" /\ st'[p].out = "ok" /\ st'[p].code = 200
            /\ client' = client
            /\ st'[p].sfail = (lastAnswer'.tok = 0)
            /\ st'[p].sfail => (token' = token /\ exp' = exp)
       /\ (EtReturns(p) /\ token = 0) =>
            /\ lastAnswer'.who = p /\ lastAnswer'.tok # 0
            /\ token' = lastAnswer'.tok
            /\ net'[p].headers["Authorization"] = Bearer(token')
            /\ st[p].lctx # "start" => st'[p].etLogins = 1]_vars

\* start() has returned normally after a refused login: the session has a
\* client and no token
C19_Witness ==
  \E p \in Procs :
     /\ st[p].op = "start" /\ st[p].pc = "done" /\ st[p].out = "ok" /\ st[p].sfail
     /\ client /\ token = 0 /\ exp = 0 /\ nLogins = 1

\* C20: no step takes the token from cached to not cached: not a failed or
\* refused login, not a retry after a 401, not stop(); the value /health
\* reports as token_cached never goes from true back to false
C20_TokenNeverCleared ==
  [][token # 0 => token' # 0]_vars

\* the first token is still cached after a later login was refused or
\* failed and after stop() has closed the client
C20_Witness ==
  token = 1 /\ nLogins = 2 /\ ~client /\ \A p \in Procs : st[p].pc = "idle"

\* C21: between two runs of coroutines the lock is held only by a caller
\* that is awaiting the answer of its login inside ensure_token or inside
\* the retry of req, so every exit of a login section, by return or by
\* exception, has released it; every call of ensure_token or req ends, by
\* a return or by an exception, and a held lock is released again
C21_LockReleased ==
  /\ [](\A p \in Lockers :
          /\ lock = p => (st[p].pc = "login_wait" /\ st[p].lctx \in {"ensure", "retry"})
          /\ st[p].pc \in {"idle", "done"} => lock # p)
  /\ \A p \in Lockers : (st[p].op # "none") ~> (st[p].pc = "done")
  /\ (lock # 0) ~> (lock = 0)

\* the first login was made under the lock and was refused or failed; a
\* caller that had waited for the lock now holds it and has sent a login of
\* its own
C21_Witness ==
  \E p \in Lockers :
     /\ lock = p /\ st[p].pc = "login_wait" /\ st[p].waited
     /\ net[p].ph = "sent" /\ nLogins = 1 /\ token = 0
     /\ \A q \in Lockers \ {p} : st[q].pc = "idle"

====
